---- MODULE Spec2Model ----
(***************************************************************************)
(* A model of VideoProcessor (src/src/main/services/video-processor.ts,   *)
(* the execFile-based class at lines 923-1806): the watcher callbacks,    *)
(* the processing queue drained by a 2 s interval, processVideo with its  *)
(* awaited probe / encode / verify steps, and the 10 s merge check with   *)
(* mergeVideos.  SpecStable steps through the stability poll of          *)
(* waitForFileStable, which the other specifications take in one step;    *)
(* SpecRestart has the StartMonitoringVideo handler of                    *)
(* ipc-custom-handle.ts replace a running processor by a new one.         *)
(*                                                                         *)
(* Node runs every callback to its next await without interleaving, so    *)
(* each action below is one such run: a timer or watcher callback, or the *)
(* continuation of an awaited external operation (ffmpeg, the stability   *)
(* poll).  External outcomes (a probe's duration, an encode's exit code,  *)
(* a concat's exit code, a failing unlink / rename) are chosen with \E.   *)
(*                                                                         *)
(* Left out of the state: QueueItem.eventType and addedTime (written,     *)
(* never read), status.processingStatus / productCount / readyCount       *)
(* (presentation only).                                                    *)
(***************************************************************************)
EXTENDS Integers, Sequences, FiniteSets, TLC

\* ------------------------------------------------------------- bounds --
MaxItems == 3     \* QueueItem objects alive (queued or being processed) at one time
MaxVer == 1       \* distinct (size, mtime) pairs a raw file can take
MaxMerges == 2    \* mergeVideos runs awaiting their concat at one time
MaxArchives == 2  \* archives written in one behaviour
NumGroups == 6    \* directories under the watched root
MaxFsOps == 2     \* writes, removals and permission changes by other programs
MaxSize == 2      \* sizes 0..MaxSize a raw file can have
MaxRestarts == 1  \* StartMonitoringVideo invocations that replace a processor

\* -------------------------------------------------- program constants --
MaxRetries == 3       \* queueItem.retryCount >= 3
VideosPerDir == 4     \* videos.length >= 4, slice(0, 4)
DirsPerMerge == 5     \* productDirs.length >= 5, slice(0, 5)
MergeFileCount == 20  \* videoFiles.length !== 20
TargetCs == 2000      \* 20 s, in centiseconds
ExactTolCs == 10      \* Math.abs(duration - 20) < 0.1
MinCs == 1600         \* duration < 16
MaxSpeedCs == 2400    \* duration <= 24
VerifyTolCs == 100    \* Math.abs(duration - 20) > 1

Groups == 1..NumGroups
Paths == {"a.mp4", "b.mov"}
\* The first output of the first directory, as a path the watcher and the scan
\* meet: <name>---1.mp4
OutputPaths == {"a---1.mp4"}
AllPaths == Paths \cup OutputPaths
EventTypes == {"add", "change", "scan"}

\* Durations (centiseconds) a probe can report; one or two per policy band.
Durations == {1500, 1600, 1995, 2010, 2400, 2401}
\* Durations a verification probe of an output can report.
OutDurations == {1900, 2000, 2100, 2101}

VARIABLES
    fileKeyMethod,       \* options.fileKeyMethod
    pstate,              \* "new" | "started" | "monitoring" | "stopped"
    scanTimer,           \* the setTimeout(scanExistingFiles, 5000) is pending
    cleanupTimer,        \* recentlyProcessedCleanup is pending
    tag,                 \* tag[g]: "S1" | "S2", the directory's name prefix
    outs,                \* outs[g]: ordinals N of the files <name>---N.mp4 in g
    fver,                \* fver[p]: 0 = no such file, else its (size, mtime) version
    pendingEv,           \* handleFileEvent calls suspended in waitForFileStable
    pendingUnlink,       \* unlink notifications the watcher has yet to deliver
    processingQueue,     \* the Map's keys in insertion order, as item ids
    items,               \* the live QueueItem objects, by id; the others are FreeItem
    runs,                \* runs[i]: the processQueuedVideo call on item i
    currentlyProcessing, \* Set of file keys
    recentlyProcessed,   \* Map key -> timestamp, as key -> "absent" | "fresh" | "old"
    merges,              \* mergeVideos calls suspended in concatVideos
    archives,            \* archives written to the staging directory
    fsOps,               \* writes and removals by other programs so far
    denied,              \* directories whose listing (fs.readdirSync) fails
    fsize,               \* fsize[p]: stats.size of the raw file p
    waits,               \* waits[e]: size, stableCount of the waitForFileStable call of event e
    restarts,            \* processors replaced by StartMonitoringVideo so far
    emitted              \* the log / status events of the last callback

vars == <<fileKeyMethod, pstate, scanTimer, cleanupTimer, tag, outs, fver,
          pendingEv, pendingUnlink, processingQueue, items, runs,
          currentlyProcessing, recentlyProcessed, merges, archives, fsOps, denied,
          fsize, waits, restarts, emitted>>

fsVars == <<tag, outs, fver>>
queueVars == <<processingQueue, items, runs, currentlyProcessing, recentlyProcessed>>
timerVars == <<pstate, scanTimer, cleanupTimer>>
mergeVars == <<merges, archives>>
envVars == <<fileKeyMethod, fsOps, denied, fsize, restarts>>

\* ------------------------------------------------------------ helpers --
Max(S) == IF S = {} THEN 0 ELSE CHOOSE x \in S : \A y \in S : y <= x

Min(S) == CHOOSE x \in S : \A y \in S : x <= y

\* The elements of a set of numbers in ascending / descending order
SortAsc(S) ==
    [j \in 1..Cardinality(S) |-> CHOOSE x \in S : Cardinality({y \in S : y < x}) = j - 1]

SortDesc(S) ==
    [j \in 1..Cardinality(S) |-> CHOOSE x \in S : Cardinality({y \in S : y > x}) = j - 1]

Take(s, n) == SubSeq(s, 1, IF Len(s) < n THEN Len(s) ELSE n)

Range(s) == {s[i] : i \in 1..Len(s)}

Abs(x) == IF x < 0 THEN -x ELSE x

Log(type, msg) == [ev |-> "log", type |-> type, msg |-> msg, n |-> 0]

StatusEvent(n) == [ev |-> "status", type |-> "", msg |-> "", n |-> n]

\* (mutant) the status carries the size the queue had when the callback began
UpdateQueueStatusStale(q) == StatusEvent(Len(processingQueue))

\* updateQueueStatus: status.queueSize = processingQueue.size, then emit.
\* Every change of the Map is followed by it within the same callback, so the
\* other status events (updateStatus) carry the size the queue has then.
UpdateQueueStatus(q) == StatusEvent(Len(q))

\* An exception that leaves a timer or watcher callback uncaught
Uncaught == [ev |-> "uncaughtException", type |-> "", msg |-> "", n |-> 0]

\* ---------------------------------------------------------- file names --
GroupOf(p) == 1

Ext(p) == IF p = "b.mov" THEN ".mov" ELSE ".mp4"

\* The digits that /---(\d+)\.mp4$/ matches in the file's name (0: no match)
OrdinalOf(p) == IF p = "a---1.mp4" THEN 1 ELSE 0

VideoExtensions ==
    {".mp4", ".avi", ".mov", ".mkv", ".wmv", ".flv", ".webm", ".m4v", ".3gp", ".ogg"}

IsVideoFile(p) == Ext(p) \in VideoExtensions

\* The paths of the model lie in a directory named S1---<name> and their own
\* names do not start with S1---.
IsInProductDirectory(p) == GroupOf(p) \in Groups

\* (mutant) no file name is taken for an output
IsProcessedVideoFileNever(p) == FALSE

\* /^.+\-\-\-\d+\.mp4$/ on the file's name
IsProcessedVideoFile(p) == OrdinalOf(p) > 0 /\ Ext(p) = ".mp4"

\* The watcher's ignored pattern /.*---\d+\.mp4$/
WatcherIgnores(p) == OrdinalOf(p) > 0 /\ Ext(p) = ".mp4"

\* handleFileEvent goes past its early returns
HandleFileEventAccepts(p) ==
    IsVideoFile(p) /\ IsInProductDirectory(p) /\ ~IsProcessedVideoFile(p)

\* fs.existsSync / a successful fs.statSync of the file p
Exists(p) ==
    /\ tag[GroupOf(p)] = "S1"
    /\ IF p \in OutputPaths THEN OrdinalOf(p) \in outs[GroupOf(p)] ELSE fver[p] > 0

Watching == pstate \in {"started", "monitoring"}

\* ------------------------------------------------------------ the keys --
PathKey(p) == <<p, 0>>

GetFileKey(p) ==
    IF fileKeyMethod = "path" THEN PathKey(p)
    ELSE IF fileKeyMethod = "path-size-mtime"
         THEN IF Exists(p) THEN <<p, fver[p]>> ELSE PathKey(p)
         ELSE PathKey(p)

Keys == Paths \X (0..MaxVer)

\* recentlyProcessed.has(k); "old" marks a timestamp more than 30 minutes back
RecentHas(k) == recentlyProcessed[k] # "absent"

\* (mutant) the recently-processed map is not consulted
IsFileBeingProcessedNoRecent(k) == k \in currentlyProcessing

IsFileBeingProcessed(k) == k \in currentlyProcessing \/ RecentHas(k)

\* ----------------------------------------------------------- the queue --
Ids == 1..MaxItems

FreeItem == [path |-> "", key |-> <<"", 0>>, processing |-> FALSE, retryCount |-> 0,
             attempts |-> 0]

NewItem(p, k) ==
    [path |-> p, key |-> k, processing |-> FALSE, retryCount |-> 0, attempts |-> 0]

\* old: the run belongs to a processor that StartMonitoringVideo has replaced
IdleRun == [stage |-> "idle", out |-> 0, wrote |-> FALSE, old |-> FALSE]

InQueue(i) == i \in Range(processingQueue)

Running(i) == runs[i].stage # "idle"

\* An object neither in the Map nor held by a running processQueuedVideo
IsFree(i) == ~InQueue(i) /\ ~Running(i)

\* Map.delete(filePath)
QueueDelete(q, p) == SelectSeq(q, LAMBDA i : items[i].path # p)

\* (mutant) a refreshed entry moves to the end of the Map
QueueSetMoveLast(q, p, id) == Append(QueueDelete(q, p), id)

\* Map.set(filePath, item): a present key keeps its place, a new one goes last
QueueSet(q, p, id) ==
    IF \E j \in 1..Len(q) : items[q[j]].path = p
    THEN [j \in 1..Len(q) |-> IF items[q[j]].path = p THEN id ELSE q[j]]
    ELSE Append(q, id)

\* (mutant) the key stays in the in-flight set
InFlightDeleteSkipped(S, k) == S

\* currentlyProcessing.delete(key)
InFlightDelete(S, k) == S \ {k}

\* Objects that are no longer referenced are forgotten (garbage collection).
Collect(its, q, rs) ==
    [i \in Ids |-> IF i \in Range(q) \/ rs[i].stage # "idle" THEN its[i] ELSE FreeItem]

\* --------------------------------------------------- waitForFileStable --
\* The locals of a waitForFileStable call before its first check; reads is
\* the sizes its last two polls read (kept for the claims only)
NoWait == [size |-> 0, stableCount |-> 0, reads |-> <<>>]

\* (mutant) two unchanged polls are enough
StableEnoughAtTwo(n) == n >= 2

StableEnough(n) == n >= 3

LastTwo(s) == IF Len(s) <= 2 THEN s ELSE SubSeq(s, Len(s) - 1, Len(s))

\* -------------------------------------------------------------- Init ---
\* The directories under the root, each S1 directory with n[g] outputs.
AllReady ==
    [tag |-> [g \in Groups |-> "S1"], n |-> [g \in Groups |-> VideosPerDir]]

FirstShort ==
    [tag |-> [g \in Groups |-> "S1"],
     n |-> [g \in Groups |-> IF g = 1 THEN VideosPerDir - 1 ELSE VideosPerDir]]

TwoShort ==
    [tag |-> [g \in Groups |-> "S1"],
     n |-> [g \in Groups |-> IF g \in {1, NumGroups} THEN VideosPerDir - 1
                              ELSE VideosPerDir]]

FourDirs ==
    [tag |-> [g \in Groups |-> IF g < DirsPerMerge THEN "S1" ELSE "S2"],
     n |-> [g \in Groups |-> IF g < DirsPerMerge THEN VideosPerDir ELSE 0]]

\* Exactly five S1 directories, each with outputs 1..4
FiveDirs ==
    [tag |-> [g \in Groups |-> IF g <= DirsPerMerge THEN "S1" ELSE "S2"],
     n |-> [g \in Groups |-> IF g <= DirsPerMerge THEN VideosPerDir ELSE 0]]

\* The state after construction; vers says whether the raw file a.mp4 waits in
\* the first directory, ops is the number of changes other programs will make.
InitWith(dirs, ops, vers) ==
    /\ fileKeyMethod \in {"path", "path-size-mtime"}
    /\ pstate = "new"
    /\ scanTimer = FALSE
    /\ cleanupTimer = FALSE
    /\ \E c \in dirs : /\ tag = c.tag
                       /\ outs = [g \in Groups |-> 1..c.n[g]]
    /\ \E v \in vers : fver = [p \in Paths |-> IF p = "a.mp4" THEN v ELSE 0]
    /\ pendingEv = {}
    /\ pendingUnlink = {}
    /\ processingQueue = <<>>
    /\ items = [i \in Ids |-> FreeItem]
    /\ runs = [i \in Ids |-> IdleRun]
    /\ currentlyProcessing = {}
    /\ recentlyProcessed = [k \in Keys |-> "absent"]
    /\ merges = <<>>
    /\ archives = 0
    /\ fsOps = MaxFsOps - ops
    /\ denied = {}
    /\ fsize = [p \in Paths |-> 1]
    /\ waits = [e \in Paths \X EventTypes |-> NoWait]
    /\ restarts = 0
    /\ emitted = <<>>

\* Too few S1 directories for a merge to come due
Init == InitWith({FourDirs}, MaxFsOps, {1})

\* Enough S1 directories for a merge
InitMerge == InitWith({AllReady, FirstShort, TwoShort}, 1, {1})

\* The default key mode, in which size and mtime are not part of the key
InitStable == InitWith({FourDirs}, MaxFsOps, {1}) /\ fileKeyMethod = "path"

\* Enough S1 directories for a merge and no raw file anywhere
InitMergeLive == InitWith({AllReady, FirstShort, TwoShort}, 0, {0})

\* Too few S1 directories for a merge; one change by another program
InitQueueLive == InitWith({FourDirs}, 1, {1})

\* Five ready directories and a sixth, first in name order, that holds three
\* outputs and the raw file; the default key mode
InitRestart == InitWith({FirstShort}, 0, {1}) /\ fileKeyMethod = "path"

\* Exactly five ready directories, with or without a raw file
InitLife == InitWith({FiveDirs}, 1, {0, 1})

\* ------------------------------------------------- start / stop / scan --
Start ==
    /\ pstate = "new"
    /\ pstate' = "started"
    \* chokidar (ignoreInitial: false) reports every file already present
    /\ pendingEv' = pendingEv \cup
          {<<p, "add">> : p \in {q \in AllPaths :
               Exists(q) /\ ~WatcherIgnores(q) /\ HandleFileEventAccepts(q)}}
    /\ emitted' = <<Log("success", "started")>>
    /\ UNCHANGED <<envVars, waits, scanTimer, cleanupTimer, fsVars, pendingUnlink,
                   queueVars, mergeVars>>

WatcherReady ==
    /\ pstate = "started"
    /\ pstate' = "monitoring"
    /\ scanTimer' = TRUE
    /\ emitted' = <<StatusEvent(Len(processingQueue)), Log("success", "ready")>>
    /\ UNCHANGED <<envVars, waits, cleanupTimer, fsVars, pendingEv, pendingUnlink,
                   queueVars, mergeVars>>

ScanExistingFiles ==
    /\ scanTimer
    /\ scanTimer' = FALSE
    \* the forEach stops at the first directory whose readdirSync throws
    /\ pendingEv' = pendingEv \cup
          {<<p, "scan">> : p \in {q \in AllPaths :
               /\ Exists(q) /\ IsVideoFile(q) /\ ~IsProcessedVideoFile(q)
               /\ HandleFileEventAccepts(q)
               /\ \A g \in Groups : (tag[g] = "S1" /\ g \in denied) => GroupOf(q) < g}}
    /\ emitted' = IF \E g \in Groups : tag[g] = "S1" /\ g \in denied
                  THEN <<Log("info", "scan-start"), Uncaught>>
                  ELSE <<Log("info", "scan-start"), Log("info", "scan-done")>>
    /\ UNCHANGED <<envVars, waits, pstate, cleanupTimer, fsVars, pendingUnlink,
                   queueVars, mergeVars>>

Stop ==
    /\ pstate \in {"started", "monitoring"}
    /\ pstate' = "stopped"
    /\ cleanupTimer' = FALSE
    /\ emitted' = <<Log("info", "watcher-stopped"), StatusEvent(Len(processingQueue)),
                    Log("info", "stopped")>>
    \* watcher.close(): notifications not yet delivered are dropped
    /\ pendingUnlink' = {}
    /\ UNCHANGED <<envVars, waits, scanTimer, fsVars, pendingEv, queueVars, mergeVars>>

\* The StartMonitoringVideo handler with a processor in place: stop() on it,
\* then a new VideoProcessor(directory) and start() on that.  The variables
\* now stand for the new object.  Of the replaced one only its running
\* processQueuedVideo calls and mergeVideos calls are kept, which go on
\* writing files; its handlers still waiting in waitForFileStable and its
\* scan timer reach only its own Map.
Restart ==
    /\ Watching
    /\ restarts < MaxRestarts
    /\ restarts' = restarts + 1
    /\ fileKeyMethod' = "path"
    /\ pstate' = "started"
    /\ scanTimer' = FALSE
    /\ cleanupTimer' = FALSE
    /\ pendingUnlink' = {}
    /\ pendingEv' =
          {<<p, "add">> : p \in {q \in AllPaths :
               Exists(q) /\ ~WatcherIgnores(q) /\ HandleFileEventAccepts(q)}}
    /\ waits' = [e \in Paths \X EventTypes |-> NoWait]
    /\ processingQueue' = <<>>
    /\ currentlyProcessing' = {}
    /\ recentlyProcessed' = [k \in Keys |-> "absent"]
    /\ runs' = [i \in Ids |-> IF Running(i) THEN [runs[i] EXCEPT !.old = TRUE]
                                ELSE IdleRun]
    /\ items' = Collect(items, <<>>, runs')
    /\ emitted' = <<Log("info", "watcher-stopped"), Log("info", "stopped"),
                    Log("success", "started")>>
    /\ UNCHANGED <<fsOps, denied, fsize, fsVars, mergeVars>>

\* ------------------------------------------------------ the file system --
\* Another program writes the raw file p while the directory is watched; the
\* watcher reports add or change.  Size and mtime are only told apart when
\* they are part of the key.
FsWrite(p, v) ==
    /\ Watching
    /\ fsOps < MaxFsOps
    /\ fsOps' = fsOps + 1
    /\ tag[GroupOf(p)] = "S1"
    /\ IF fileKeyMethod = "path" THEN v = 1 ELSE v # fver[p]
    /\ \A t \in EventTypes \ {"scan"} : <<p, t>> \notin pendingEv
    /\ fver' = [fver EXCEPT ![p] = v]
    /\ pendingEv' = IF ~WatcherIgnores(p) /\ HandleFileEventAccepts(p)
                    THEN pendingEv \cup {<<p, IF fver[p] = 0 THEN "add" ELSE "change">>}
                    ELSE pendingEv
    /\ emitted' = <<>>
    /\ UNCHANGED <<fileKeyMethod, fsize, waits, restarts, denied, timerVars, tag, outs, pendingUnlink, queueVars, mergeVars>>

\* Another program makes directory g unlistable (readdirSync fails on it).
FsDeny(g) ==
    /\ fsOps < MaxFsOps
    /\ fsOps' = fsOps + 1
    /\ g \notin denied
    /\ tag[g] = "S1"
    /\ denied' = denied \cup {g}
    /\ emitted' = <<>>
    /\ UNCHANGED <<fileKeyMethod, fsize, waits, restarts, timerVars, fsVars, pendingEv, pendingUnlink, queueVars,
                   mergeVars>>

\* Another program goes on writing the raw file p: its size becomes n.
FsResize(p, n) ==
    /\ Watching
    /\ fver[p] > 0
    /\ n # fsize[p]
    /\ fsize' = [fsize EXCEPT ![p] = n]
    /\ emitted' = <<>>
    /\ UNCHANGED <<fileKeyMethod, fsOps, denied, waits, restarts, timerVars, fsVars, pendingEv,
                   pendingUnlink, queueVars, mergeVars>>

\* Another program removes the raw file p; the watcher reports unlink.
FsRemove(p) ==
    /\ Watching
    /\ fsOps < MaxFsOps
    /\ fsOps' = fsOps + 1
    /\ Exists(p)
    /\ fver' = [fver EXCEPT ![p] = 0]
    /\ pendingUnlink' = pendingUnlink \cup {p}
    /\ emitted' = <<>>
    /\ UNCHANGED <<fileKeyMethod, fsize, waits, restarts, denied, timerVars, tag, outs, pendingEv, queueVars, mergeVars>>

\* --------------------------------------------------- handleFileEvent ---
AddToProcessingQueue(p, k) ==
    LET id == Min({i \in Ids : IsFree(i)})
        q == [j \in 1..Len(QueueSet(processingQueue, p, id)) |->
                 QueueSet(processingQueue, p, id)[j]]
    IN  /\ \E i \in Ids : IsFree(i)
        /\ processingQueue' = q
        /\ items' = Collect([items EXCEPT ![id] = NewItem(p, k)], q, runs)
        /\ emitted' = <<UpdateQueueStatus(q), Log("info", "enqueued")>>
        /\ UNCHANGED <<runs, currentlyProcessing, recentlyProcessed>>

\* The continuation of handleFileEvent after waitForFileStable: stable is the
\* poll's outcome (FALSE: it timed out, or a stat failed).
HandleFileEvent(p, t, stable) ==
    /\ <<p, t>> \in pendingEv
    /\ pendingEv' = pendingEv \ {<<p, t>>}
    /\ stable => Exists(p)
    /\ IF ~stable
       THEN /\ emitted' = <<Log("error", "file-event-failed")>>
            /\ UNCHANGED queueVars
       ELSE IF IsFileBeingProcessed(GetFileKey(p))
            THEN /\ emitted' = <<>>
                 /\ UNCHANGED queueVars
            ELSE AddToProcessingQueue(p, GetFileKey(p))
    /\ waits' = [waits EXCEPT ![<<p, t>>] = NoWait]
    /\ UNCHANGED <<envVars, timerVars, fsVars, pendingUnlink, mergeVars>>

\* (mutant) a failing stat is not noticed
StatFailsNever(p) == FALSE

\* fs.statSync(filePath) throws inside check
StatFails(p) == ~Exists(p)

\* One run of check, the polling callback of waitForFileStable for the
\* event <<p, t>>; timedOut: more than 30 s have passed since the call.  When
\* the promise settles, handleFileEvent goes on in the same turn.
Check(p, t, timedOut) ==
    /\ <<p, t>> \in pendingEv
    /\ IF timedOut \/ StatFails(p)
       THEN HandleFileEvent(p, t, FALSE)
       ELSE IF fsize[p] = waits[<<p, t>>].size
            THEN IF StableEnough(waits[<<p, t>>].stableCount + 1)
                 THEN HandleFileEvent(p, t, TRUE)
                 ELSE /\ waits' = [waits EXCEPT
                            ![<<p, t>>].stableCount = @ + 1,
                            ![<<p, t>>].reads = LastTwo(Append(@, fsize[p]))]
                      /\ emitted' = <<>>
                      /\ UNCHANGED <<envVars, timerVars, fsVars, pendingEv,
                                     pendingUnlink, queueVars, mergeVars>>
            ELSE /\ waits' = [waits EXCEPT
                       ![<<p, t>>].size = fsize[p],
                       ![<<p, t>>].stableCount = 0,
                       ![<<p, t>>].reads = LastTwo(Append(@, fsize[p]))]
                 /\ emitted' = <<>>
                 /\ UNCHANGED <<envVars, timerVars, fsVars, pendingEv,
                                pendingUnlink, queueVars, mergeVars>>

\* --------------------------------------------------- handleFileDelete ---
HandleFileDelete(p) ==
    /\ p \in pendingUnlink
    /\ pendingUnlink' = pendingUnlink \ {p}
    /\ currentlyProcessing' = InFlightDelete(currentlyProcessing, GetFileKey(p))
    /\ recentlyProcessed' = [recentlyProcessed EXCEPT ![GetFileKey(p)] = "absent"]
    /\ processingQueue' = QueueDelete(processingQueue, p)
    /\ items' = Collect(items, processingQueue', runs)
    /\ emitted' = <<UpdateQueueStatus(processingQueue'), Log("info", "deleted")>>
    /\ UNCHANGED <<envVars, waits, timerVars, fsVars, pendingEv, runs, mergeVars>>

\* ------------------------------------------------ processQueuedVideo ---
\* (mutant) > instead of >=
RetryExhaustedLate(n) == n > MaxRetries

\* (mutant) the first failure drops the entry
RetryExhaustedAtOnce(n) == n >= 1

RetryExhausted(n) == n >= MaxRetries

LogsOf(evs) == SelectSeq(evs, LAMBDA e : e.ev = "log")

\* The end of processQueuedVideo in a processor that has been replaced: its
\* Map, sets and timers are that object's own and nothing reads them any
\* more, so only the end of the run and its log events are kept (its status
\* events report the size of its own Map and are left out).
EndOfOldRun(i, logs) ==
    /\ runs' = [runs EXCEPT ![i] = IdleRun]
    /\ items' = Collect(items, processingQueue, runs')
    /\ emitted' = logs
    /\ UNCHANGED <<processingQueue, currentlyProcessing, recentlyProcessed, cleanupTimer>>

\* try-block tail of processQueuedVideo: processVideo returned.  logs are
\* the events processVideo emitted in this continuation.
Succeed(i, logs) ==
    IF runs[i].old
    THEN EndOfOldRun(i, LogsOf(logs))
    ELSE /\ processingQueue' = QueueDelete(processingQueue, items[i].path)
         /\ runs' = [runs EXCEPT ![i] = IdleRun]
         /\ items' = Collect(items, processingQueue', runs')
         /\ recentlyProcessed' = [recentlyProcessed EXCEPT ![items[i].key] = "fresh"]
         /\ cleanupTimer' = TRUE
         /\ emitted' = logs \o <<UpdateQueueStatus(processingQueue')>>
         /\ UNCHANGED currentlyProcessing

\* catch-block of processQueuedVideo: processVideo threw.
Fail(i, logs) ==
    LET n == items[i].retryCount + 1
    IN  IF runs[i].old
        THEN EndOfOldRun(i, LogsOf(logs) \o
                <<IF RetryExhausted(n) THEN Log("error", "retries-exhausted")
                  ELSE Log("warning", "will-retry")>>)
        ELSE
        /\ processingQueue' = IF RetryExhausted(n)
                              THEN QueueDelete(processingQueue, items[i].path)
                              ELSE processingQueue
        /\ runs' = [runs EXCEPT ![i] = IdleRun]
        /\ items' = Collect([items EXCEPT ![i].retryCount = n, ![i].processing = FALSE],
                            processingQueue', runs')
        /\ currentlyProcessing' = InFlightDelete(currentlyProcessing, items[i].key)
        /\ emitted' = logs \o
              <<IF RetryExhausted(n) THEN Log("error", "retries-exhausted")
                ELSE Log("warning", "will-retry"),
                UpdateQueueStatus(processingQueue')>>
        /\ UNCHANGED <<recentlyProcessed, cleanupTimer>>

\* The head of processQueuedVideo, up to the await inside getVideoDuration.
ProcessQueuedVideo(i) ==
    /\ items' = [items EXCEPT ![i].processing = TRUE, ![i].attempts = @ + 1]
    /\ currentlyProcessing' = currentlyProcessing \cup {items[i].key}
    /\ runs' = [runs EXCEPT ![i] = [IdleRun EXCEPT !.stage = "probe"]]
    /\ emitted' = <<Log("info", "start-processing")>>
    /\ UNCHANGED <<processingQueue, recentlyProcessed>>

\* (mutant) the tick starts nothing
TickStartsNever(q) == FALSE

\* The guard of the setInterval callback of startQueueProcessing
TickStarts(q) == Len(q) > 0 /\ ~items[Head(q)].processing

\* The setInterval callback of startQueueProcessing.
QueueTick ==
    /\ Watching
    /\ IF TickStarts(processingQueue)
       THEN ProcessQueuedVideo(Head(processingQueue))
       ELSE /\ emitted' = <<>>
            /\ UNCHANGED queueVars
    /\ UNCHANGED <<envVars, waits, timerVars, fsVars, pendingEv, pendingUnlink, mergeVars>>

\* ------------------------------------------------------- processVideo ---
\* (mutant) only a duration of exactly 20 s is left alone
IsExactOnly20(d) == d = TargetCs

IsExact(d) == Abs(d - TargetCs) < ExactTolCs

\* (mutant) the threshold is 15 s
IsTooShortBelow15(d) == d < MinCs - 100

IsTooShort(d) == d < MinCs

\* (mutant) durations up to 25 s are speed-adjusted
IsSpeedRangeTo25(d) == d >= MinCs /\ d <= MaxSpeedCs + 100

IsSpeedRange(d) == d >= MinCs /\ d <= MaxSpeedCs

\* (mutant) speed = 20 / duration
SpeedMilliInverse(d) == (TargetCs * 1000) \div d

\* adjustSpeed: speed = duration / 20, in thousandths
SpeedMilli(d) == (d * 1000) \div TargetCs

\* adjustSpeed: the number of atempo filters in the arguments (speed > 2
\* adds a second -af)
AtempoStages(speedMilli) == IF speedMilli > 2000 THEN 2 ELSE 1

\* The log line with which adjustSpeed / trimVideo begins
EncodeLog(d) ==
    IF IsSpeedRange(d)
    THEN [ev |-> "log", type |-> "info", msg |-> "adjust-speed", n |-> SpeedMilli(d)]
    ELSE Log("info", "trim-first-20s")

VerifyOk(d) == ~(Abs(d - TargetCs) > VerifyTolCs)

\* getOutputFileName: the ordinal of <name>---<N>.mp4
GetOutputOrdinal(g) == Max(outs[g]) + 1

Encoding(i) == runs[i].stage \in {"adjustSpeed", "trimVideo"}

\* (mutant) the catch block leaves the output file behind
RemoveOutputSkipped(i) == outs

\* processVideo's catch: remove outputPath if it exists
RemoveOutput(i) ==
    LET g == GroupOf(items[i].path)
    IN  IF tag[g] = "S1" THEN [outs EXCEPT ![g] = @ \ {runs[i].out}] ELSE outs

\* getVideoDuration(inputPath) settled: d < 0 is a rejection.
ProbeDone(i, d) ==
    /\ runs[i].stage = "probe"
    /\ d >= 0 => Exists(items[i].path)
    /\ IF d < 0
       THEN Fail(i, <<>>)
       ELSE IF IsExact(d)
       THEN Succeed(i, <<Log("info", "duration"), Log("info", "exactly-20s")>>)
       ELSE IF IsTooShort(d)
       THEN Succeed(i, <<Log("info", "duration"), Log("warning", "too-short")>>)
       ELSE IF GroupOf(items[i].path) \in denied
       THEN Fail(i, <<Log("info", "duration")>>)    \* getOutputFileName throws
       ELSE /\ runs' = [runs EXCEPT ![i].stage =
                            IF IsSpeedRange(d) THEN "adjustSpeed" ELSE "trimVideo",
                                     ![i].out = GetOutputOrdinal(GroupOf(items[i].path))]
            /\ emitted' = IF runs[i].old
                           THEN <<Log("info", "duration"), EncodeLog(d)>>
                           ELSE <<Log("info", "duration"), StatusEvent(Len(processingQueue)),
                                  EncodeLog(d)>>
            /\ UNCHANGED <<processingQueue, items, currentlyProcessing,
                           recentlyProcessed, cleanupTimer>>
    /\ UNCHANGED <<envVars, waits, pstate, scanTimer, fsVars, pendingEv, pendingUnlink,
                   mergeVars>>

\* The ffmpeg child of an encode creates its output file.  The arguments hold
\* no -y, so ffmpeg does not write over a file that is already there.
FfmpegWrites(i) ==
    /\ Encoding(i)
    /\ ~runs[i].wrote
    /\ tag[GroupOf(items[i].path)] = "S1"
    /\ runs[i].out \notin outs[GroupOf(items[i].path)]
    /\ outs' = [outs EXCEPT ![GroupOf(items[i].path)] = @ \cup {runs[i].out}]
    /\ runs' = [runs EXCEPT ![i].wrote = TRUE]
    /\ emitted' = <<>>
    /\ UNCHANGED <<envVars, waits, timerVars, tag, fver, pendingEv, pendingUnlink,
                   processingQueue, items, currentlyProcessing, recentlyProcessed,
                   mergeVars>>

\* executeFFmpeg settled for adjustSpeed / trimVideo: ok is exit code 0.
EncodeDone(i, ok) ==
    /\ Encoding(i)
    /\ ok => runs[i].wrote
    /\ IF ok
       THEN /\ runs' = [runs EXCEPT ![i].stage = "verify"]
            /\ emitted' = <<>>
            /\ UNCHANGED <<outs, processingQueue, items, currentlyProcessing,
                           recentlyProcessed, cleanupTimer>>
       ELSE /\ outs' = RemoveOutput(i)
            /\ Fail(i, <<StatusEvent(Len(processingQueue))>>)
    /\ UNCHANGED <<envVars, waits, pstate, scanTimer, tag, fver, pendingEv, pendingUnlink,
                   mergeVars>>

\* (mutant) the source is unlinked before the output is verified
VerifyDoneUnlinkFirst(i, d) ==
    /\ runs[i].stage = "verify"
    /\ d >= 0 => /\ tag[GroupOf(items[i].path)] = "S1"
                 /\ runs[i].out \in outs[GroupOf(items[i].path)]
    /\ Exists(items[i].path)
    /\ fver' = [fver EXCEPT ![items[i].path] = 0]
    /\ pendingUnlink' = IF Watching THEN pendingUnlink \cup {items[i].path}
                        ELSE pendingUnlink
    /\ IF d >= 0 /\ VerifyOk(d)
       THEN /\ Succeed(i, <<Log("success", "processed"), StatusEvent(Len(processingQueue))>>)
            /\ UNCHANGED outs
       ELSE /\ outs' = RemoveOutput(i)
            /\ Fail(i, <<StatusEvent(Len(processingQueue))>>)
    /\ UNCHANGED <<envVars, waits, pstate, scanTimer, tag, pendingEv, mergeVars>>

\* getVideoDuration(outputPath) settled inside verifyOutputVideo.
VerifyDone(i, d) ==
    /\ runs[i].stage = "verify"
    /\ d >= 0 => /\ tag[GroupOf(items[i].path)] = "S1"
                 /\ runs[i].out \in outs[GroupOf(items[i].path)]
    /\ IF d >= 0 /\ VerifyOk(d) /\ Exists(items[i].path)
       THEN \* fs.unlinkSync(inputPath)
            /\ fver' = [fver EXCEPT ![items[i].path] = 0]
            /\ pendingUnlink' = IF Watching THEN pendingUnlink \cup {items[i].path}
                                ELSE pendingUnlink
            /\ Succeed(i, <<Log("success", "processed"), StatusEvent(Len(processingQueue))>>)
            /\ UNCHANGED outs
       ELSE /\ outs' = RemoveOutput(i)
            /\ Fail(i, <<StatusEvent(Len(processingQueue))>>)
            /\ UNCHANGED <<fver, pendingUnlink>>
    /\ UNCHANGED <<envVars, waits, pstate, scanTimer, tag, pendingEv, mergeVars>>

\* ---------------------------------------------------- scheduleCleanup ---
\* Thirty minutes pass without a success.  The 60 s cleanup timer, re-armed
\* by every success, has fired by then.
TimePasses ==
    /\ \E k \in Keys : recentlyProcessed[k] = "fresh"
    /\ ~cleanupTimer
    /\ recentlyProcessed' = [k \in Keys |->
          IF recentlyProcessed[k] = "fresh" THEN "old" ELSE recentlyProcessed[k]]
    /\ emitted' = <<>>
    /\ UNCHANGED <<envVars, waits, timerVars, fsVars, pendingEv, pendingUnlink,
                   processingQueue, items, runs, currentlyProcessing, mergeVars>>

\* The setTimeout callback of scheduleCleanup.
Cleanup ==
    /\ cleanupTimer
    /\ cleanupTimer' = FALSE
    /\ recentlyProcessed' = [k \in Keys |->
          IF recentlyProcessed[k] = "old" THEN "absent" ELSE recentlyProcessed[k]]
    /\ emitted' = <<>>
    /\ UNCHANGED <<envVars, waits, pstate, scanTimer, fsVars, pendingEv, pendingUnlink,
                   processingQueue, items, runs, currentlyProcessing, mergeVars>>

\* ------------------------------------------------- checkMergeCondition ---
GetProductDirectories == {g \in Groups : tag[g] = "S1"}

\* getProcessedVideos: the ordinals of the (at most four) outputs with the
\* highest ordinals, highest first
GetProcessedVideos(g) ==
    IF g \in denied THEN <<>> ELSE Take(SortDesc(outs[g]), VideosPerDir)

IsReady(g) == Len(GetProcessedVideos(g)) >= VideosPerDir

\* (mutant) one ready directory fewer is enough
MergeDueOneFewer(productDirs, readyDirs) ==
    /\ Cardinality(productDirs) >= DirsPerMerge
    /\ Cardinality(readyDirs) >= DirsPerMerge - 1

MergeDue(productDirs, readyDirs) ==
    Cardinality(productDirs) >= DirsPerMerge /\ Cardinality(readyDirs) >= DirsPerMerge

\* mergeVideos: getProductDirectories().sort().slice(0, 5)
SelectDirs == Take(SortAsc(GetProductDirectories), DirsPerMerge)

\* mergeVideos: the files pushed to videoFiles, as <<directory, ordinal>>
\* videos.slice(0, 4) of one directory
FilesOf(g) ==
    [j \in 1..Len(Take(GetProcessedVideos(g), VideosPerDir)) |->
        <<g, Take(GetProcessedVideos(g), VideosPerDir)[j]>>]

RECURSIVE CollectFrom(_, _)
CollectFrom(dirs, k) ==
    IF k > Len(dirs) THEN <<>> ELSE FilesOf(dirs[k]) \o CollectFrom(dirs, k + 1)

CollectFiles(dirs) == CollectFrom(dirs, 1)

CountMatches(files) == ~(Len(files) # MergeFileCount)

\* mergeVideos up to the await of concatVideos
MergeVideos ==
    IF CountMatches(CollectFiles(SelectDirs))
    THEN /\ Len(merges) < MaxMerges
         /\ merges' = Append(merges, [dirs |-> SelectDirs, files |-> CollectFiles(SelectDirs)])
         /\ emitted' = <<StatusEvent(Len(processingQueue)), Log("info", "merge-due"),
                         StatusEvent(Len(processingQueue)), Log("info", "merge-start")>>
    ELSE /\ merges' = merges
         /\ emitted' = <<StatusEvent(Len(processingQueue)), Log("info", "merge-due"),
                         StatusEvent(Len(processingQueue)), Log("error", "merge-failed"),
                         StatusEvent(Len(processingQueue))>>

\* (mutant) the queue is not looked at
MergeNeverDeferred(q) == FALSE

MergeDeferred(q) == Len(q) > 0

\* The setInterval callback of start(): checkMergeCondition.
CheckMergeCondition ==
    /\ Watching
    /\ IF MergeDeferred(processingQueue)
       THEN /\ emitted' = <<>>
            /\ UNCHANGED merges
       ELSE IF MergeDue(GetProductDirectories, {g \in GetProductDirectories : IsReady(g)})
            THEN MergeVideos
            ELSE /\ emitted' = <<StatusEvent(Len(processingQueue))>>
                 /\ UNCHANGED merges
    /\ UNCHANGED <<envVars, waits, timerVars, fsVars, pendingEv, pendingUnlink, queueVars, archives>>

\* (mutant) the directory is emptied and keeps its name
ResetOutcomeNoRename(g, bad, kind) ==
    IF tag[g] # "S1" \/ g \in denied THEN "gone"
    ELSE IF g = bad /\ kind = "unlink" THEN "kept"
    ELSE "emptied"

\* cleanAndRenameProductDirs on one directory: what becomes of it.  bad is
\* the directory an fs call fails on (0: none), kind the failing call.
ResetOutcome(g, bad, kind) ==
    IF tag[g] # "S1" \/ g \in denied THEN "gone"     \* readdirSync throws
    ELSE IF g = bad /\ kind = "unlink" THEN "kept"
    ELSE IF g = bad /\ kind = "rename" THEN "emptied"
    ELSE "renamed"

\* executeFFmpeg settled for concatVideos; ok is exit code 0.
ConcatDone(m, ok, bad, kind) ==
    /\ m \in 1..Len(merges)
    /\ merges' = [j \in 1..(Len(merges) - 1) |-> IF j < m THEN merges[j] ELSE merges[j + 1]]
    /\ IF ok
       THEN LET dirs == Range(merges[m].dirs)
                cleared == {g \in dirs : ResetOutcome(g, bad, kind) \in {"emptied", "renamed"}}
                gonePaths == {p \in Paths : GroupOf(p) \in cleared /\ Exists(p)}
            IN  /\ archives < MaxArchives
                /\ bad \in dirs \cup {0}
                /\ bad = 0 => kind = "unlink"
                /\ archives' = archives + 1
                /\ outs' = [g \in Groups |-> IF g \in cleared THEN {} ELSE outs[g]]
                /\ fver' = [p \in Paths |-> IF p \in gonePaths THEN 0 ELSE fver[p]]
                /\ tag' = [g \in Groups |->
                             IF g \in dirs /\ ResetOutcome(g, bad, kind) = "renamed"
                             THEN "S2" ELSE tag[g]]
                /\ pendingUnlink' = IF Watching THEN pendingUnlink \cup gonePaths
                                    ELSE pendingUnlink
                /\ emitted' =
                     [j \in 1..Len(merges[m].dirs) |->
                        IF ResetOutcome(merges[m].dirs[j], bad, kind) = "renamed"
                        THEN Log("info", "dir-reset") ELSE Log("error", "dir-failed")]
                     \o <<Log("success", "merged"), StatusEvent(Len(processingQueue))>>
       ELSE /\ bad = 0
            /\ kind = "unlink"
            /\ emitted' = <<Log("error", "merge-failed"), StatusEvent(Len(processingQueue))>>
            /\ UNCHANGED <<fsVars, pendingUnlink, archives>>
    /\ UNCHANGED <<envVars, waits, timerVars, pendingEv, queueVars>>

\* ------------------------------------------------------------- Next ----
Next ==
    \/ Start
    \/ WatcherReady
    \/ \E p \in Paths, v \in 1..MaxVer : FsWrite(p, v)
    \/ \E p \in Paths : FsRemove(p)
    \/ \E p \in Paths, t \in EventTypes, stable \in BOOLEAN : HandleFileEvent(p, t, stable)
    \/ \E p \in Paths : HandleFileDelete(p)
    \/ QueueTick
    \/ \E i \in Ids, d \in Durations \cup {-1} : ProbeDone(i, d)
    \/ \E i \in Ids : FfmpegWrites(i)
    \/ \E i \in Ids, ok \in BOOLEAN : EncodeDone(i, ok)
    \/ \E i \in Ids, d \in OutDurations \cup {-1} : VerifyDone(i, d)
    \/ TimePasses
    \/ Cleanup
    \/ CheckMergeCondition

\* The processor with merges running to their end; the only change by
\* another program is the removal of a raw file.
NextMerge ==
    \/ Start
    \/ WatcherReady
    \/ ScanExistingFiles
    \/ \E p \in Paths : FsRemove(p)
    \/ \E p \in Paths, t \in EventTypes, stable \in BOOLEAN : HandleFileEvent(p, t, stable)
    \/ \E p \in Paths : HandleFileDelete(p)
    \/ QueueTick
    \/ \E i \in Ids, d \in Durations \cup {-1} : ProbeDone(i, d)
    \/ \E i \in Ids : FfmpegWrites(i)
    \/ \E i \in Ids, ok \in BOOLEAN : EncodeDone(i, ok)
    \/ \E i \in Ids, d \in OutDurations \cup {-1} : VerifyDone(i, d)
    \/ TimePasses
    \/ Cleanup
    \/ CheckMergeCondition
    \/ \E m \in 1..MaxMerges, ok \in BOOLEAN, bad \in {0, 1, DirsPerMerge},
          kind \in {"unlink", "rename"} : ConcatDone(m, ok, bad, kind)

\* The whole life of the processor, stop() and the delayed scan included; the
\* only change by another program is a directory becoming unlistable.
NextLife ==
    \/ Start
    \/ WatcherReady
    \/ ScanExistingFiles
    \/ Stop
    \/ \E g \in Groups : FsDeny(g)
    \/ \E p \in Paths, t \in EventTypes, stable \in BOOLEAN : HandleFileEvent(p, t, stable)
    \/ \E p \in Paths : HandleFileDelete(p)
    \/ QueueTick
    \/ \E i \in Ids, d \in Durations \cup {-1} : ProbeDone(i, d)
    \/ \E i \in Ids : FfmpegWrites(i)
    \/ \E i \in Ids, ok \in BOOLEAN : EncodeDone(i, ok)
    \/ \E i \in Ids, d \in OutDurations \cup {-1} : VerifyDone(i, d)
    \/ TimePasses
    \/ Cleanup
    \/ CheckMergeCondition
    \/ \E m \in 1..MaxMerges, ok \in BOOLEAN, bad \in {0, 1, DirsPerMerge},
          kind \in {"unlink", "rename"} : ConcatDone(m, ok, bad, kind)

\* The watcher callbacks with the stability poll of waitForFileStable step
\* by step, while other programs write, resize and remove raw files.
NextStable ==
    \/ Start
    \/ \E p \in Paths, v \in 1..MaxVer : FsWrite(p, v)
    \/ \E p \in Paths, n \in 0..MaxSize : FsResize(p, n)
    \/ \E p \in Paths : FsRemove(p)
    \/ \E p \in Paths, t \in EventTypes, timedOut \in BOOLEAN : Check(p, t, timedOut)
    \/ \E p \in Paths : HandleFileDelete(p)

\* The timers of a started processor with nothing to transcode, every
\* concat succeeding and every reset going through.
NextMergeLive ==
    \/ Start
    \/ WatcherReady
    \/ ScanExistingFiles
    \/ QueueTick
    \/ CheckMergeCondition
    \/ \E m \in 1..MaxMerges : ConcatDone(m, TRUE, 0, "unlink")

\* The watcher callbacks, the queue tick and the runs it starts.
NextQueueLive ==
    \/ Start
    \/ WatcherReady
    \/ \E p \in Paths, v \in 1..MaxVer : FsWrite(p, v)
    \/ \E p \in Paths : FsRemove(p)
    \/ \E p \in Paths, t \in EventTypes, stable \in BOOLEAN : HandleFileEvent(p, t, stable)
    \/ \E p \in Paths : HandleFileDelete(p)
    \/ QueueTick
    \/ \E i \in Ids, d \in Durations \cup {-1} : ProbeDone(i, d)
    \/ \E i \in Ids : FfmpegWrites(i)
    \/ \E i \in Ids, ok \in BOOLEAN : EncodeDone(i, ok)
    \/ \E i \in Ids, d \in OutDurations \cup {-1} : VerifyDone(i, d)

\* A processor that is replaced by StartMonitoringVideo while it runs; no
\* change by another program, every reset of a merge going through.
NextRestart ==
    \/ Start
    \/ WatcherReady
    \/ Restart
    \/ \E p \in Paths, t \in EventTypes, stable \in BOOLEAN : HandleFileEvent(p, t, stable)
    \/ \E p \in Paths : HandleFileDelete(p)
    \/ QueueTick
    \/ \E i \in Ids, d \in Durations \cup {-1} : ProbeDone(i, d)
    \/ \E i \in Ids : FfmpegWrites(i)
    \/ \E i \in Ids, ok \in BOOLEAN : EncodeDone(i, ok)
    \/ \E i \in Ids, d \in OutDurations \cup {-1} : VerifyDone(i, d)
    \/ CheckMergeCondition
    \/ \E m \in 1..MaxMerges, ok \in BOOLEAN : ConcatDone(m, ok, 0, "unlink")

Spec == Init /\ [][Next]_vars

SpecRestart == InitRestart /\ [][NextRestart]_vars

\* setInterval keeps firing the queue tick, and every ffprobe / ffmpeg child
\* a run waits for ends.
SpecQueueLive ==
    /\ InitQueueLive
    /\ [][NextQueueLive]_vars
    /\ WF_vars(QueueTick)
    /\ \A i \in Ids :
          /\ WF_vars(\E d \in Durations \cup {-1} : ProbeDone(i, d))
          /\ WF_vars(\E ok \in BOOLEAN : EncodeDone(i, ok))
          /\ WF_vars(\E d \in OutDurations \cup {-1} : VerifyDone(i, d))

\* setInterval keeps firing the merge check, and a running ffmpeg ends.
SpecMergeLive ==
    /\ InitMergeLive
    /\ [][NextMergeLive]_vars
    /\ WF_vars(CheckMergeCondition)
    /\ WF_vars(\E m \in 1..MaxMerges : ConcatDone(m, TRUE, 0, "unlink"))

SpecStable == InitStable /\ [][NextStable]_vars

SpecLife == InitLife /\ [][NextLife]_vars

SpecMerge == InitMerge /\ [][NextMerge]_vars

\* =================================================================== *
\*                              The claims                              *
\* =================================================================== *
Emitted(e) == e \in Range(emitted)

\* processVideo threw in this step of run i
ProcessVideoThrows(i) ==
    \/ \E d \in {-1} : ProbeDone(i, d)
    \/ \E d \in Durations :
          /\ ProbeDone(i, d)
          /\ ~(Abs(d - TargetCs) < ExactTolCs) /\ ~(d < MinCs)
          /\ GroupOf(items[i].path) \in denied
    \/ EncodeDone(i, FALSE)
    \/ \E d \in OutDurations \cup {-1} :
          /\ VerifyDone(i, d)
          /\ Running(i)
          /\ ~(d >= 0 /\ Abs(d - TargetCs) <= VerifyTolCs /\ Exists(items[i].path))

\* processVideo returned normally in this step of run i
ProcessVideoReturns(i) ==
    \/ \E d \in Durations :
          /\ ProbeDone(i, d)
          /\ Abs(d - TargetCs) < ExactTolCs \/ d < MinCs
    \/ \E d \in OutDurations :
          /\ VerifyDone(i, d)
          /\ Running(i)
          /\ Abs(d - TargetCs) <= VerifyTolCs /\ Exists(items[i].path)

\* C1: at most one transcode-verify-cleanup sequence is in progress for a
\* given identity key, in every reachable state.
C1_OneRunPerKey ==
    \A i, j \in Ids :
        (i # j /\ Running(i) /\ Running(j)) => items[i].key # items[j].key

\* C2: at most one processQueuedVideo call is in progress at any time.
C2_OneRunAtATime == Cardinality({i \in Ids : Running(i)}) <= 1

C4_RecentDedup ==
    [][/\ \A p \in Paths, t \in EventTypes :
             (HandleFileEvent(p, t, TRUE) /\ recentlyProcessed[GetFileKey(p)] # "absent")
                => UNCHANGED <<processingQueue, items, runs>>
       /\ \A i \in Ids :
             (~Running(i) /\ runs'[i].stage # "idle")
                => recentlyProcessed[items'[i].key] = "absent"]_vars

C4_Witness ==
    /\ \E p \in Paths, t \in EventTypes :
          /\ <<p, t>> \in pendingEv
          /\ Exists(p)
          /\ recentlyProcessed[GetFileKey(p)] # "absent"
          /\ GetFileKey(p) \notin currentlyProcessing

\* C5: processVideo removes the source file only in the step in which the
\* output exists and its verified duration is within 1 s of 20 s; no other
\* step of processVideo touches the source, and a source that exists when
\* processVideo throws existed the step before.
C5_SourceKeptUntilVerified ==
    [][\A i \in Ids :
          /\ \A d \in Durations \cup {-1} : ProbeDone(i, d) => fver' = fver
          /\ \A ok \in BOOLEAN : EncodeDone(i, ok) => fver' = fver
          /\ \A d \in OutDurations \cup {-1} :
                (VerifyDone(i, d) /\ fver' # fver) =>
                    /\ d >= 0
                    /\ Abs(d - TargetCs) <= VerifyTolCs
                    /\ runs[i].out \in outs[GroupOf(items[i].path)]
                    /\ fver' = [fver EXCEPT ![items[i].path] = 0]
                    /\ recentlyProcessed'[items[i].key] = "fresh"
          /\ ProcessVideoThrows(i) => fver' = fver]_vars

C5_Witness ==
    /\ Emitted(Log("success", "processed"))
    /\ fver["a.mp4"] = 0
    /\ recentlyProcessed[<<"a.mp4", IF fileKeyMethod = "path" THEN 0 ELSE 1>>] = "fresh"

\* C6: when the encode fails, or the output is missing or its duration is
\* more than 1 s off 20 s, the output path is gone after the step, the run
\* has ended, and a queued entry has its retry count incremented and stays
\* queued while that count is below 3.
C6_FailedOutputRemoved ==
    [][\A i \in Ids :
          ((\/ EncodeDone(i, FALSE)
            \/ \E d \in OutDurations \cup {-1} :
                  /\ VerifyDone(i, d)
                  /\ Running(i)
                  /\ (d < 0 \/ Abs(d - TargetCs) > VerifyTolCs)))
          => /\ runs[i].out \notin outs'[GroupOf(items[i].path)]
             /\ runs'[i].stage = "idle"
             /\ InQueue(i) =>
                   IF items[i].retryCount + 1 < MaxRetries
                   THEN /\ processingQueue' = processingQueue
                        /\ items'[i].retryCount = items[i].retryCount + 1
                        /\ ~items'[i].processing
                   ELSE i \notin Range(processingQueue')]_vars

C6_Witness ==
    /\ Len(emitted) = 3
    /\ emitted[2] = Log("warning", "will-retry")
    /\ \E i \in Ids : InQueue(i) /\ items[i].retryCount = 2 /\ ~items[i].processing

\* C7: a checkMergeCondition tick at which the queue is non-empty starts no
\* merge and changes no directory.
C7_NoMergeWhileQueued ==
    [][(CheckMergeCondition /\ Len(processingQueue) > 0)
          => UNCHANGED <<merges, archives, tag, outs, fver>>]_vars

C7_Witness ==
    /\ Watching
    /\ Len(processingQueue) > 0
    /\ Cardinality({g \in Groups : tag[g] = "S1" /\ Cardinality(outs[g]) >= VideosPerDir})
          >= DirsPerMerge
    /\ \A g \in 1..DirsPerMerge : tag[g] = "S1" /\ Cardinality(outs[g]) >= VideosPerDir
    /\ merges = <<>>

\* C8: no mergeVideos call is in progress while a transcode is.
C8_MergeExcludesTranscode == ~(Len(merges) > 0 /\ \E i \in Ids : Running(i))

\* C9: mergeVideos is entered only at a tick at which at least 5 directories
\* are tagged S1 and at least 5 directories hold at least 4 outputs.
C9_MergeThresholds ==
    [][(Len(merges') > Len(merges) \/ Log("info", "merge-due") \in Range(emitted'))
          => /\ Cardinality({g \in Groups : tag[g] = "S1"}) >= DirsPerMerge
             /\ Cardinality({g \in Groups : tag[g] = "S1"
                                /\ Cardinality(outs[g]) >= VideosPerDir}) >= DirsPerMerge]_vars

C9_Witness ==
    /\ Len(merges) > 0
    /\ Emitted(Log("info", "merge-start"))

\* C10: a directory that holds fewer than 4 outputs is never emptied or
\* renamed by a merge.
C10_ShortDirNeverReset ==
    [][\A g \in Groups :
          (tag[g] = "S1" /\ tag'[g] = "S2") => Cardinality(outs[g]) >= VideosPerDir]_vars

\* C11: when a concat succeeds and no call of the reset fails, exactly the
\* five directories selected for that merge end up empty (outputs and raw
\* files) and tagged S2, and every other directory keeps its files and tag.
C11_MergeResetsSelected ==
    [][\A m \in 1..MaxMerges :
          ConcatDone(m, TRUE, 0, "unlink") =>
             /\ Cardinality(Range(merges[m].dirs)) = DirsPerMerge
             /\ \A g \in Groups :
                   IF g \in Range(merges[m].dirs)
                   THEN /\ outs'[g] = {}
                        /\ tag'[g] = "S2"
                        /\ \A p \in Paths : GroupOf(p) = g => fver'[p] = 0
                   ELSE /\ outs'[g] = outs[g]
                        /\ tag'[g] = tag[g]
                        /\ \A p \in Paths : GroupOf(p) = g => fver'[p] = fver[p]]_vars

C11_Witness ==
    /\ archives = 1
    /\ Emitted(Log("success", "merged"))
    /\ \A g \in 1..DirsPerMerge : tag[g] = "S2" /\ outs[g] = {}
    /\ tag[NumGroups] = "S1"
    /\ Cardinality(outs[NumGroups]) >= VideosPerDir

\* C12: every merge attempt either empties and renames all of its selected
\* directories or leaves every one of them as it was, also when the concat
\* fails or an unlink / rename of the reset fails.
C12_ResetAllOrNone ==
    [][\A m \in 1..MaxMerges, ok \in BOOLEAN, bad \in Groups \cup {0},
          kind \in {"unlink", "rename"} :
          ConcatDone(m, ok, bad, kind) =>
             \/ \A g \in Range(merges[m].dirs) : outs'[g] = {} /\ tag'[g] = "S2"
             \/ \A g \in Range(merges[m].dirs) : outs'[g] = outs[g] /\ tag'[g] = tag[g]]_vars

\* C13: with five ready S1 directories, no raw file, an empty queue and no
\* change by another program, at most one merge is ever started: the merges
\* in progress and the archives written never number more than one.
C13_OneMergeOnly ==
    (/\ \A p \in Paths : fver[p] = 0
     /\ denied = {}
     /\ pendingEv = {} /\ pendingUnlink = {}
     /\ processingQueue = <<>>
     /\ currentlyProcessing = {}
     /\ \A i \in Ids : ~Running(i)
     /\ \A k \in Keys : recentlyProcessed[k] = "absent"
     /\ \A g \in Groups : outs[g] \subseteq 1..VideosPerDir)
    => Len(merges) + archives <= 1

\* C14: when processQueuedVideo finishes successfully for a queued entry, the
\* entry has left the queue, its key is in the recently-processed map with a
\* fresh timestamp, and its key is no longer in currentlyProcessing.
C14_SuccessClearsInFlight ==
    [][\A i \in Ids :
          (ProcessVideoReturns(i) /\ InQueue(i)) =>
             /\ i \notin Range(processingQueue')
             /\ recentlyProcessed'[items[i].key] = "fresh"
             /\ items[i].key \notin currentlyProcessing']_vars

\* C15: handling an unlink of p removes p's queue entry and removes the key
\* under which that entry was enqueued from currentlyProcessing and from the
\* recently-processed map, in either key mode.
C15_UnlinkPurgesKey ==
    [][\A p \in Paths :
          HandleFileDelete(p) =>
             \A i \in Ids :
                (InQueue(i) /\ items[i].path = p) =>
                   /\ i \notin Range(processingQueue')
                   /\ items[i].key \notin currentlyProcessing'
                   /\ recentlyProcessed'[items[i].key] = "absent"]_vars

\* C16: when the probe reports a duration below 16 s, processVideo writes no
\* output, leaves the source alone and returns: the run ends with the
\* too-short warning and no failure log, and the entry leaves the queue with
\* its key marked recently processed.
C16_TooShortLeftAlone ==
    [][\A i \in Ids, d \in Durations :
          (ProbeDone(i, d) /\ d < MinCs) =>
             /\ outs' = outs
             /\ fver' = fver
             /\ runs'[i].stage = "idle"
             /\ i \notin Range(processingQueue')
             /\ recentlyProcessed'[items[i].key] = "fresh"
             /\ Log("warning", "too-short") \in Range(emitted')
             /\ Log("warning", "will-retry") \notin Range(emitted')
             /\ Log("error", "retries-exhausted") \notin Range(emitted')]_vars

C16_Witness ==
    /\ Emitted(Log("warning", "too-short"))
    /\ fver["a.mp4"] = 1
    /\ processingQueue = <<>>
    /\ \A g \in Groups : outs[g] \subseteq 1..VideosPerDir

\* C17: when the probe reports a duration within 0.1 s of 20 s, processVideo
\* starts no encode, writes no output, leaves the source alone, and the
\* attempt ends as a success.
C17_ExactLeftAlone ==
    [][\A i \in Ids, d \in Durations :
          (ProbeDone(i, d) /\ Abs(d - TargetCs) < ExactTolCs) =>
             /\ outs' = outs
             /\ fver' = fver
             /\ runs'[i] = IdleRun
             /\ i \notin Range(processingQueue')
             /\ recentlyProcessed'[items[i].key] = "fresh"
             /\ Log("info", "exactly-20s") \in Range(emitted')
             /\ Log("warning", "will-retry") \notin Range(emitted')
             /\ Log("error", "retries-exhausted") \notin Range(emitted')]_vars

C17_Witness ==
    /\ Emitted(Log("info", "exactly-20s"))
    /\ fver["a.mp4"] = 1
    /\ \E k \in Keys : recentlyProcessed[k] = "fresh"
    /\ \A i \in Ids : ~Running(i)

\* C18: once stop() has returned, the delayed scan and the cleanup timer do
\* not fire, no entry is added to the queue, and no transcode or merge starts.
C18_QuietAfterStop ==
    [][pstate = "stopped" =>
          /\ ~ScanExistingFiles
          /\ ~Cleanup
          /\ \A i \in Ids : i \in Range(processingQueue') => InQueue(i)
          /\ \A i \in Ids : runs'[i].stage # "idle" => Running(i)
          /\ Len(merges') <= Len(merges)]_vars

\* C19: no exception leaves a watcher callback or a timer callback uncaught.
C19_NoUncaught == Uncaught \notin Range(emitted)

\* C20: a callback in which an error is caught emits at least one log event;
\* in particular a merge check in which listing a directory failed does.
C20_CaughtErrorsLogged ==
    [][(/\ CheckMergeCondition
        /\ processingQueue = <<>>
        /\ \E g \in Groups : tag[g] = "S1" /\ g \in denied)
       => \E j \in 1..Len(emitted') : emitted'[j].ev = "log"]_vars

\* C21: a file named <name>---<N>.mp4 is never handed to waitForFileStable
\* and never becomes a queue entry, so it is never the source of a transcode;
\* and a directory that holds fewer than 4 outputs, no raw file and no run in
\* progress, and is not among the directories of a merge already under way,
\* keeps its outputs and its name in every step.
C21_OutputsLeftAlone ==
    [][/\ \A p \in OutputPaths :
             /\ \A t \in EventTypes : <<p, t>> \notin pendingEv'
             /\ \A i \in Ids : items'[i].path # p
       /\ \A g \in Groups :
             (/\ Cardinality(outs[g]) < VideosPerDir
              /\ \A p \in Paths : GroupOf(p) = g => fver[p] = 0
              /\ \A i \in Ids : Running(i) => GroupOf(items[i].path) # g
              /\ \A m \in 1..Len(merges) : g \notin Range(merges[m].dirs))
             => outs'[g] = outs[g] /\ tag'[g] = tag[g]]_vars

C21_Witness ==
    /\ Emitted(Log("info", "scan-done"))
    /\ Exists("a---1.mp4")
    /\ Cardinality(outs[1]) = VideosPerDir - 1
    /\ \A p \in Paths : fver[p] = 0
    /\ pendingEv = {}
    /\ processingQueue = <<>>

\* C22: the ordinal a run computes is the highest ordinal in its directory
\* plus one and names no file that is there, and the catch of processVideo
\* removes no output other than the one its own run wrote.
C22_FreshOrdinal ==
    [][\A i \in Ids :
          /\ (\E d \in Durations : ProbeDone(i, d) /\ runs'[i].stage # "idle") =>
                /\ runs'[i].out = Max(outs[GroupOf(items[i].path)]) + 1
                /\ runs'[i].out \notin outs[GroupOf(items[i].path)]
          /\ ((\/ EncodeDone(i, FALSE)
                \/ \E d \in OutDurations \cup {-1} : VerifyDone(i, d))
               /\ outs' # outs) => runs[i].wrote]_vars

\* C23: waitForFileStable resolves, and handleFileEvent enqueues, only in a
\* poll that reads the size the two polls before it read; a poll that reads
\* another size than the one before sets stableCount to 0 and resolves nothing.
C23_StableBeforeEnqueue ==
    [][\A p \in Paths, t \in EventTypes :
          /\ (/\ Check(p, t, FALSE)
              /\ <<p, t>> \notin pendingEv'
              /\ Log("error", "file-event-failed") \notin Range(emitted'))
             => /\ Len(waits[<<p, t>>].reads) = 2
                /\ waits[<<p, t>>].reads[1] = fsize[p]
                /\ waits[<<p, t>>].reads[2] = fsize[p]
          /\ (Check(p, t, FALSE) /\ Exists(p) /\ fsize[p] # waits[<<p, t>>].size)
             => /\ waits'[<<p, t>>].stableCount = 0
                /\ <<p, t>> \in pendingEv'
                /\ processingQueue' = processingQueue
          /\ (\E i \in Ids : i \in Range(processingQueue') /\ items'[i] # items[i]
                              /\ items'[i].path = p)
             => \E u \in EventTypes :
                   /\ Len(waits[<<p, u>>].reads) = 2
                   /\ waits[<<p, u>>].reads[1] = fsize[p]
                   /\ waits[<<p, u>>].reads[2] = fsize[p]]_vars

C23_Witness ==
    /\ Emitted(Log("info", "enqueued"))
    /\ \E i \in Ids : InQueue(i) /\ items[i].path = "a.mp4"
    /\ fsize["a.mp4"] = MaxSize
    /\ waits[<<"a.mp4", "add">>] = NoWait

\* The queueSize of the last status event among evs (-1: none)
LastStatusSize(evs) ==
    IF \E j \in 1..Len(evs) : evs[j].ev = "status"
    THEN evs[Max({j \in 1..Len(evs) : evs[j].ev = "status"})].n
    ELSE -1

\* C24: the callback that enqueues an entry, the one that handles an unlink
\* and the one in which a processing attempt ends (success, retry or drop)
\* each emit a status event, and the last one they emit carries the number of
\* entries the queue holds after the callback.
C24_StatusAfterQueueChange ==
    [][/\ \A p \in Paths, t \in EventTypes :
             (HandleFileEvent(p, t, TRUE) /\ ~IsFileBeingProcessed(GetFileKey(p)))
                => LastStatusSize(emitted') = Len(processingQueue')
       /\ \A p \in Paths :
             HandleFileDelete(p) => LastStatusSize(emitted') = Len(processingQueue')
       /\ \A i \in Ids :
             (Running(i) /\ runs'[i].stage = "idle")
                => LastStatusSize(emitted') = Len(processingQueue')]_vars

C24_Witness ==
    /\ Emitted(Log("error", "retries-exhausted"))
    /\ Len(processingQueue) = 1
    /\ LastStatusSize(emitted) = 1

\* The log events by which the four outcomes of processVideo announce themselves
OutcomeLogs(evs) ==
    {j \in 1..Len(evs) :
        /\ evs[j].ev = "log"
        /\ evs[j].msg \in {"exactly-20s", "too-short", "adjust-speed", "trim-first-20s"}}

\* C25: a probed duration d leads to exactly one outcome: within 0.1 s of
\* 20 s the no-op; otherwise below 16 s the unprocessable warning; otherwise
\* from 16 s to 24 s adjustSpeed with speed d / 20; otherwise trimVideo.
C25_OneOutcomePerDuration ==
    [][\A i \in Ids, d \in Durations :
          ProbeDone(i, d) =>
             /\ Cardinality(OutcomeLogs(emitted')) = 1
             /\ IF Abs(d - TargetCs) < ExactTolCs
                THEN /\ Log("info", "exactly-20s") \in Range(emitted')
                     /\ runs'[i].stage = "idle"
                ELSE IF d < MinCs
                THEN /\ Log("warning", "too-short") \in Range(emitted')
                     /\ runs'[i].stage = "idle"
                ELSE IF d <= MaxSpeedCs
                THEN /\ runs'[i].stage = "adjustSpeed"
                     /\ \E j \in OutcomeLogs(emitted') :
                           /\ emitted'[j].msg = "adjust-speed"
                           /\ emitted'[j].n * TargetCs = d * 1000
                ELSE /\ runs'[i].stage = "trimVideo"
                     /\ Log("info", "trim-first-20s") \in Range(emitted')]_vars

C25_Witness ==
    /\ \E i \in Ids : runs[i].stage = "trimVideo"
    /\ Emitted(Log("info", "trim-first-20s"))

\* C26: at most one mergeVideos call is in progress, and a merge tick that
\* comes while a concat is running starts no further merge.
C26_OneMergeAtATime ==
    [][/\ Len(merges') <= 1
       /\ (CheckMergeCondition /\ Len(merges) > 0) => merges' = merges]_vars

\* The S1 directories that hold at least 4 outputs
ReadyDirs == {g \in Groups : tag[g] = "S1" /\ Cardinality(outs[g]) >= VideosPerDir}

\* C27: a merge check that finds the condition met starts mergeVideos on the
\* first 5, in name order, of the S1 directories that hold at least 4 outputs.
C27_MergeTakesReadyDirs ==
    [][(CheckMergeCondition /\ Log("info", "merge-due") \in Range(emitted'))
          => /\ Len(merges') = Len(merges) + 1
             /\ merges'[Len(merges')].dirs = Take(SortAsc(ReadyDirs), DirsPerMerge)]_vars

\* C28: when the processor is running with an empty queue and at least 5 S1
\* directories hold at least 4 outputs each, a further archive is eventually
\* written, whatever other S1 directories there are.
C28_MergeEventually ==
    \A n \in 0..(MaxArchives - 1) :
        (/\ Watching
         /\ processingQueue = <<>>
         /\ Cardinality(ReadyDirs) >= DirsPerMerge
         /\ archives = n) ~> (archives > n)

\* C29: mergeVideos hands concatVideos exactly 20 files: of each of its
\* directories the 4 outputs with the highest ordinals, the directories in
\* name order and the files of one directory in the order of their ordinals.
C29_TwentyFilesInOrder ==
    [][Len(merges') > Len(merges) =>
          /\ Len(merges'[Len(merges')].files) = MergeFileCount
          /\ \A g \in Range(merges'[Len(merges')].dirs) :
                /\ Cardinality({f \in Range(merges'[Len(merges')].files) : f[1] = g})
                      = VideosPerDir
                /\ \A f \in Range(merges'[Len(merges')].files) :
                      f[1] = g =>
                         /\ f[2] \in outs[g]
                         /\ Cardinality({n \in outs[g] : n > f[2]}) < VideosPerDir
          /\ \A j, k \in 1..MergeFileCount :
                j < k =>
                   \/ merges'[Len(merges')].files[j][1] < merges'[Len(merges')].files[k][1]
                   \/ /\ merges'[Len(merges')].files[j][1] = merges'[Len(merges')].files[k][1]
                      /\ merges'[Len(merges')].files[j][2] < merges'[Len(merges')].files[k][2]]_vars

\* The place of entry i in the Map's order
Pos(q, i) == CHOOSE j \in 1..Len(q) : q[j] = i

\* C30: an entry whose attempt fails with fewer than 3 failures so far keeps
\* its place in the queue, with processing = false and its key out of
\* currentlyProcessing; a run is only ever started for the first entry; the
\* entries keep their order, and a new entry goes last unless it takes the
\* place of the entry of the same path.
C30_RetryKeepsPlace ==
    [][/\ \A i \in Ids :
             /\ (ProcessVideoThrows(i) /\ InQueue(i) /\ items[i].retryCount + 1 < MaxRetries)
                   => /\ processingQueue' = processingQueue
                      /\ ~items'[i].processing
                      /\ items'[i].retryCount = items[i].retryCount + 1
                      /\ items[i].key \notin currentlyProcessing'
             /\ (~Running(i) /\ runs'[i].stage # "idle")
                   => Len(processingQueue) > 0 /\ i = Head(processingQueue)
       /\ \A i, j \in Range(processingQueue) \cap Range(processingQueue') :
             Pos(processingQueue, i) < Pos(processingQueue, j)
                => Pos(processingQueue', i) < Pos(processingQueue', j)
       /\ \A j \in Range(processingQueue') \ Range(processingQueue) :
             \/ Pos(processingQueue', j) = Len(processingQueue')
             \/ \E k \in Range(processingQueue) \ Range(processingQueue') :
                   /\ items[k].path = items'[j].path
                   /\ Pos(processingQueue, k) = Pos(processingQueue', j)]_vars

C30_Witness ==
    /\ Emitted(Log("warning", "will-retry"))
    /\ Len(processingQueue) = 2
    /\ items[Head(processingQueue)].retryCount = 1
    /\ ~items[Head(processingQueue)].processing
    /\ items[Head(processingQueue)].key \notin currentlyProcessing

\* C31: the third failure of a queue entry removes the entry and nothing
\* else from the queue, emits the error log, and leaves the entry's key out of
\* currentlyProcessing and out of the recently-processed map; an event for a
\* file whose key is in neither is enqueued as a fresh entry with retry count
\* 0; and the queue tick starts the head whenever the head is not in progress.
C31_DroppedAfterThird ==
    [][/\ \A i \in Ids :
             (ProcessVideoThrows(i) /\ InQueue(i) /\ items[i].retryCount = MaxRetries - 1)
                => /\ processingQueue' = SelectSeq(processingQueue, LAMBDA j : j # i)
                   /\ Log("error", "retries-exhausted") \in Range(emitted')
                   /\ runs'[i].stage = "idle"
                   /\ items[i].key \notin currentlyProcessing'
                   /\ recentlyProcessed'[items[i].key] = "absent"
                   /\ Len(processingQueue') > 0 =>
                         \/ ~items'[Head(processingQueue')].processing
                         \/ runs'[Head(processingQueue')].stage # "idle"
       /\ \A p \in Paths, t \in EventTypes :
             (/\ HandleFileEvent(p, t, TRUE)
              /\ GetFileKey(p) \notin currentlyProcessing
              /\ recentlyProcessed[GetFileKey(p)] = "absent")
                => \E j \in Range(processingQueue') :
                      /\ items'[j].path = p
                      /\ items'[j].retryCount = 0
                      /\ ~items'[j].processing
       /\ (/\ QueueTick
           /\ Len(processingQueue) > 0
           /\ ~items[Head(processingQueue)].processing)
             => runs'[Head(processingQueue)].stage = "probe"]_vars

C31_Witness ==
    /\ Emitted(Log("error", "retries-exhausted"))
    /\ Len(processingQueue) = 1
    /\ ~items[Head(processingQueue)].processing
    /\ currentlyProcessing = {}
    /\ \A k \in Keys : recentlyProcessed[k] = "absent"
    /\ fver["a.mp4"] > 0 /\ fver["b.mov"] > 0

\* The keys (paths) of the Map in insertion order
QueuePaths(q, its) == [j \in 1..Len(q) |-> its[q[j]].path]

PathPos(s, p) == CHOOSE j \in 1..Len(s) : s[j] = p

\* C32: a run is only ever started by the queue tick and only for the first
\* entry of the Map; the paths in the Map keep their relative order in every
\* step, a path that was not in the Map goes last, and enqueueing a path that
\* is in the Map leaves the order of the paths as it was.
C32_FifoByFirstInsertion ==
    [][/\ \A i \in Ids :
             (~Running(i) /\ runs'[i].stage # "idle")
                => /\ QueueTick
                   /\ Len(processingQueue) > 0
                   /\ i = Head(processingQueue)
       /\ \A p1, p2 \in Range(QueuePaths(processingQueue, items))
                          \cap Range(QueuePaths(processingQueue', items')) :
             PathPos(QueuePaths(processingQueue, items), p1)
                < PathPos(QueuePaths(processingQueue, items), p2)
             => PathPos(QueuePaths(processingQueue', items'), p1)
                   < PathPos(QueuePaths(processingQueue', items'), p2)
       /\ \A p \in Range(QueuePaths(processingQueue', items'))
                      \ Range(QueuePaths(processingQueue, items)) :
             PathPos(QueuePaths(processingQueue', items'), p) = Len(processingQueue')
       /\ \A p \in Paths, t \in EventTypes :
             (HandleFileEvent(p, t, TRUE) /\ p \in Range(QueuePaths(processingQueue, items)))
                => QueuePaths(processingQueue', items') = QueuePaths(processingQueue, items)]_vars

C32_Witness ==
    /\ Emitted(Log("info", "enqueued"))
    /\ processingQueue = <<3, 2>>
    /\ items[3].path = "a.mp4"
    /\ items[2].path = "b.mov"

\* The retryCount of the Map's entry for path p
RetryCountOf(q, its, p) == its[q[PathPos(QueuePaths(q, its), p)]].retryCount

\* C33: while a path stays in the Map the retry count of its entry never
\* decreases, whatever add / change / scan events arrive between attempts.
C33_RetryCountNeverDecreases ==
    [][\A p \in Range(QueuePaths(processingQueue, items))
                   \cap Range(QueuePaths(processingQueue', items')) :
          RetryCountOf(processingQueue', items', p)
             >= RetryCountOf(processingQueue, items, p)]_vars

\* C34: a key recorded more than 30 minutes ago does not keep its file out of
\* the queue once the 60 s cleanup has had its turn: an event for such a key
\* is enqueued unless a cleanup is still pending.
C34_OldKeyExpires ==
    [][\A p \in Paths, t \in EventTypes :
          (/\ HandleFileEvent(p, t, TRUE)
           /\ recentlyProcessed[GetFileKey(p)] = "old"
           /\ GetFileKey(p) \notin currentlyProcessing
           /\ ~cleanupTimer)
          => \E j \in Range(processingQueue') :
                items'[j].path = p /\ items'[j].key = GetFileKey(p)]_vars

\* C35: a poll of waitForFileStable that finds the 30 s budget spent, or
\* whose stat of the file fails, rejects: handleFileEvent ends with an error
\* log, and the queue, its entries, currentlyProcessing and the
\* recently-processed map are as they were.
C35_UnstableNotEnqueued ==
    [][\A p \in Paths, t \in EventTypes :
          (Check(p, t, TRUE) \/ (Check(p, t, FALSE) /\ ~Exists(p)))
          => /\ Log("error", "file-event-failed") \in Range(emitted')
             /\ <<p, t>> \notin pendingEv'
             /\ UNCHANGED <<processingQueue, items, runs, currentlyProcessing,
                            recentlyProcessed>>]_vars

C35_Witness ==
    /\ Emitted(Log("error", "file-event-failed"))
    /\ Exists("a.mp4")
    /\ fsize["a.mp4"] = MaxSize
    /\ pendingEv = {}
    /\ processingQueue = <<>>

\* C37: the step in which a run ends removes from the Map no entry other
\* than the one the run was started for, and a run whose entry has been
\* replaced since leaves the recently-processed state of the new entry's key
\* as it was.
C37_CompletionOwnEntryOnly ==
    [][\A i \in Ids :
          (ProcessVideoReturns(i) \/ ProcessVideoThrows(i))
          => \A j \in Range(processingQueue) :
                j # i => /\ j \in Range(processingQueue')
                         /\ recentlyProcessed'[items[j].key]
                               = recentlyProcessed[items[j].key]]_vars

\* C40: adjustSpeed is entered only with a speed d / 20 between 0.8 and 1.2,
\* so its arguments hold a single atempo filter; every other duration takes
\* a path that computes no speed.
C40_SpeedWithinAtempoRange ==
    [][\A i \in Ids, d \in Durations :
          ProbeDone(i, d) =>
             /\ runs'[i].stage = "adjustSpeed" =>
                   \E j \in 1..Len(emitted') :
                      /\ emitted'[j].msg = "adjust-speed"
                      /\ emitted'[j].n >= 800
                      /\ emitted'[j].n <= 1200
                      /\ AtempoStages(emitted'[j].n) = 1
             /\ runs'[i].stage # "adjustSpeed" =>
                   \A j \in 1..Len(emitted') : emitted'[j].msg # "adjust-speed"]_vars

C40_Witness ==
    /\ \E i \in Ids : runs[i].stage = "adjustSpeed"
    /\ \E j \in 1..Len(emitted) : emitted[j].msg = "adjust-speed" /\ emitted[j].n = 1200

\* C38: with the queue tick firing and every attempt ending, an entry that
\* is in the queue is eventually out of it.
C38_EntryEventuallyLeaves ==
    \A i \in Ids : (Watching /\ InQueue(i)) ~> ~InQueue(i)

C38_Witness ==
    /\ Watching
    /\ processingQueue = <<>>
    /\ Emitted(Log("error", "retries-exhausted"))
    /\ fsOps = MaxFsOps

\* The outputs in directory g written by runs of a replaced processor and
\* not verified: what its transcodes had got to when it was stopped
AbandonedOutputs(g) ==
    {runs[i].out : i \in {j \in Ids : /\ Running(j)
                                       /\ runs[j].old
                                       /\ runs[j].wrote
                                       /\ GroupOf(items[j].path) = g}}

\* C36: the output of a transcode that was in progress when the processor
\* was stopped is never among the files a merge takes, and stopping the
\* processor and starting the next one leaves no such output in place.
C36_PartialOutputNotMerged ==
    [][/\ Len(merges') > Len(merges) =>
             \A f \in Range(merges'[Len(merges')].files) :
                f[2] \notin AbandonedOutputs(f[1])
       /\ Restart =>
             \A i \in Ids :
                (Running(i) /\ runs[i].wrote)
                   => runs[i].out \notin outs'[GroupOf(items[i].path)]]_vars

\* C39: StartMonitoringVideo with a processor in place stops it before it
\* starts the new one, and the new processor starts no run on a file while a
\* run of the replaced processor on the same file is still in progress.
C39_NoOverlapAcrossRestart ==
    [][/\ Restart =>
             \E a, b \in 1..Len(emitted') :
                /\ a < b
                /\ emitted'[a] = Log("info", "stopped")
                /\ emitted'[b] = Log("success", "started")
       /\ \A i \in Ids :
             (~Running(i) /\ runs'[i].stage # "idle")
                => ~\E j \in Ids : /\ Running(j)
                                   /\ runs[j].old
                                   /\ items[j].path = items[i].path]_vars

====
